---- MODULE Spec2Model ----
(***************************************************************************)
(* Model of src/pump.py: a handle for a Harvard syringe pump on a serial   *)
(* chain (class Pump), its command/response cycles and its cached fields.  *)
(*                                                                         *)
(* Representation.  Text is a TLA+ string; a character is a string of      *)
(* length one.  Python floats that carry a length, a rate or a volume are  *)
(* integers counting thousandths (10.0 mm is 10000); unit conversion is    *)
(* done over exact fractions.  An exception that leaves a method is the    *)
(* "outcome" of the recorded call, named after the Python exception class. *)
(***************************************************************************)
EXTENDS Integers, Sequences, FiniteSets, TLC

VARIABLES
    open,          \* the serial port of the chain is open
    handle,        \* "none" | "Pump" | "Pump2000" : the class of the handle the caller holds
    address,       \* Pump.address as the integer passed to __init__
    state,         \* Pump.state : "None" | "idle" | "infusing" | "withdrawing" | "stalled"
    diameter,      \* Pump.diameter (thousandths of a mm) or None
    flowrate,      \* Pump.flowrate (thousandths) or None
    targetvolume,  \* Pump.targetvolume (thousandths) or None
    syringevolume, \* Pump.syringevolume (thousandths) or None
    thread,        \* "none" | "created" | "started" : the threading.Thread of infuse/withdraw
    pc,            \* "ready" | "polling" : the caller is inside waituntilfinished
    unread,        \* frames written to the line since the line was last read
    rate_units,    \* Pump2000.rate_units: "unset" until set_rate assigns it
    tasks,         \* where each thread that shares the handle stands (callers t1, t2; poller)
    lastOp         \* the call that ended last: name, arguments, frames written, replies read, outcome

vars == <<open, handle, address, state, diameter, flowrate, targetvolume,
          syringevolume, thread, pc, unread, tasks, rate_units, lastOp>>

None == -1

----------------------------------------------------------------------------
(* Python string primitives *)

Min(a, b) == IF a < b THEN a ELSE b

Max(a, b) == IF a > b THEN a ELSE b

\* the position a Python slice bound i denotes in a string of length n
Bound(i, n) == IF i < 0 THEN Max(n + i, 0) ELSE Min(i, n)

\* s[i:j] (Python slice: negative bounds count from the end, all clamped)
Slice(s, i, j) ==
    LET lo == Bound(i, Len(s))
        hi == Bound(j, Len(s))
    IN  IF hi <= lo THEN "" ELSE SubSeq(s, lo + 1, hi)

\* s[i] for 0 <= i < len(s)
Ch(s, i) == SubSeq(s, i + 1, i + 1)

\* s[i:] for i >= 0
From(s, i) == IF i >= Len(s) THEN "" ELSE SubSeq(s, i + 1, Len(s))

\* the value of F at a, with a evaluated once
Once(F(_), a) == CHOOSE r \in { F(x) : x \in {a} } : TRUE

\* sub in s
Contains(s, sub) ==
    \E t \in {s}, u \in {sub} :
        \E i \in 0..(Len(t) - Len(u)) : SubSeq(t, i + 1, i + Len(u)) = u

\* s.find(sub)
Find(s, sub) ==
    LET F(t) ==
            LET hits == { i \in 0..(Len(t) - Len(sub)) : SubSeq(t, i + 1, i + Len(sub)) = sub }
            IN  IF hits = {} THEN -1 ELSE CHOOSE i \in hits : \A k \in hits : i <= k
    IN  Once(F, s)

\* the characters of s at the indices in keep, in order
RECURSIVE Pick(_, _, _)
Pick(s, keep, i) ==
    IF i >= Len(s) THEN ""
    ELSE (IF i \in keep THEN Ch(s, i) ELSE "") \o Pick(s, keep, i + 1)

\* s.replace('\n', '')
RemoveNL(s) ==
    LET F(t) == Pick(t, { i \in 0..(Len(t) - 1) : Ch(t, i) # "\n" }, 0)
    IN  Once(F, s)

\* s.lstrip(chars)
LStrip(s, chars) ==
    LET F(t) ==
            LET stay == { i \in 0..(Len(t) - 1) : ~Contains(chars, Ch(t, i)) }
            IN  IF stay = {} THEN ""
                ELSE From(t, CHOOSE i \in stay : \A k \in stay : i <= k)
    IN  Once(F, s)

\* s.rstrip(chars)
RStrip(s, chars) ==
    LET F(t) ==
            LET stay == { i \in 0..(Len(t) - 1) : ~Contains(chars, Ch(t, i)) }
            IN  IF stay = {} THEN ""
                ELSE Slice(t, 0, 1 + CHOOSE i \in stay : \A k \in stay : i >= k)
    IN  Once(F, s)

\* the lines of t from index i on, t without '\n': lines end at '\r'
RECURSIVE LinesFrom(_, _)
LinesFrom(t, i) ==
    IF i >= Len(t) THEN <<>>
    ELSE LET ends == { k \in i..(Len(t) - 1) : Ch(t, k) = "\r" }
         IN  IF ends = {} THEN <<From(t, i)>>
             ELSE <<Slice(t, i, CHOOSE k \in ends : \A j \in ends : k <= j)>>
                  \o LinesFrom(t, 1 + CHOOSE k \in ends : \A j \in ends : k <= j)

\* s.splitlines() of a text without '\n' (read removed it)
SplitLines(s) ==
    LET F(t) == LinesFrom(t, 0)
    IN  Once(F, s)

IsDigit(c) == c \in {"0", "1", "2", "3", "4", "5", "6", "7", "8", "9"}

DigitVal(c) == Find("0123456789", c)

Digit(n) == Ch("0123456789", n)

AllDigits(s) == \E t \in {s} : \A i \in 0..(Len(t) - 1) : IsDigit(Ch(t, i))

RECURSIVE IntStr(_)
\* the decimal digits of n >= 0
IntStr(n) == IF n < 10 THEN Digit(n) ELSE IntStr(n \div 10) \o Digit(n % 10)

\* the number written by the first n characters of a string of digits
RECURSIVE DigitsValTo(_, _)
DigitsValTo(t, n) ==
    IF n = 0 THEN 0 ELSE 10 * DigitsValTo(t, n - 1) + DigitVal(Ch(t, n - 1))

\* the number written by a string of digits ("" is 0)
DigitsVal(s) ==
    LET F(t) == DigitsValTo(t, Len(t))
    IN  Once(F, s)

\* int(s): the number, or None for ValueError
ParseInt(s) ==
    LET F(t) == IF Len(t) > 0 /\ AllDigits(t) THEN DigitsVal(t) ELSE None
    IN  Once(F, RStrip(LStrip(s, " "), " "))

\* float(s) in thousandths, or None for ValueError.  Decimals beyond the
\* third are dropped: the replies of the model carry at most three that
\* are not zero.
ParseFloat(s) ==
    LET F(t) ==
            LET k == Find(t, ".")
                ip == IF k = -1 THEN t ELSE Slice(t, 0, k)
                fp == IF k = -1 THEN "" ELSE From(t, k + 1)
            IN  IF AllDigits(ip) /\ AllDigits(fp) /\ Len(ip) + Len(fp) > 0
                THEN 1000 * DigitsVal(ip) + DigitsVal(Slice(fp \o "000", 0, 3))
                ELSE None
    IN  Once(F, RStrip(LStrip(s, " "), " "))

\* "%2.2f" % d for d in thousandths (inputs of the model are no ties)
Fmt2(d) ==
    LET cents == (d + 5) \div 10
    IN  IntStr(cents \div 100) \o "." \o Digit((cents \div 10) % 10) \o Digit(cents % 10)

\* '{0:02.0f}'.format(address)
AddressStr(a) == IF a < 10 THEN "0" \o IntStr(a) ELSE IntStr(a)

----------------------------------------------------------------------------
(* module functions *)

\* remove_crud(string)
remove_crud(string) ==
    LET s1 == IF Contains(string, ".") THEN RStrip(string, "0") ELSE string
        s2 == LStrip(s1, "0 ")
    IN  RStrip(s2, " .")

RECURSIVE GCD(_, _)
GCD(a, b) == IF b = 0 THEN a ELSE GCD(b, a % b)

\* the fraction n/d (d > 0, n >= 0) in lowest terms
Frac(n, d) == <<n \div GCD(n, d), d \div GCD(n, d)>>

\* string[-3:] and string[:2]
Last3(string) == Slice(string, -3, Len(string))

First2(string) == Slice(string, 0, 2)

\* the four factors of convert_units.  Each is a power of 60 (time) or of 10
\* (volume) and is kept as its exponent: 60 is 1, 1/60 is -1; 1000 is 3,
\* 1/1000 is -3, 1/1e6 is -6
time_factor_from(fromUnit) ==
    IF Last3(fromUnit) = "sec" THEN 1
    ELSE IF fromUnit = "hor" THEN -1
    ELSE 0

time_factor_to(toUnit) ==
    IF Last3(toUnit) = "sec" THEN -1
    ELSE IF Last3(toUnit) = "hor" THEN 1
    ELSE 0

vol_factor_from(fromUnit) ==
    IF First2(fromUnit) = "ml" THEN 3
    ELSE IF First2(fromUnit) = "nl" THEN -3
    ELSE IF First2(fromUnit) = "pl" THEN -6
    ELSE 0

vol_factor_to(toUnit) ==
    IF First2(toUnit) = "ml" THEN -3
    ELSE IF First2(toUnit) = "nl" THEN 3
    ELSE IF First2(toUnit) = "pl" THEN 6
    ELSE 0

\* time_factor_from * time_factor_to * vol_factor_from * vol_factor_to as the
\* exponents <<of 60, of 10>>
Factor(fromUnit, toUnit) ==
    <<time_factor_from(fromUnit) + time_factor_to(toUnit),
      vol_factor_from(fromUnit) + vol_factor_to(toUnit)>>

RECURSIVE Pow(_, _)
Pow(b, n) == IF n <= 0 THEN 1 ELSE b * Pow(b, n - 1)

\* convert_units(val, fromUnit, toUnit): val times the four factors, as an
\* exact fraction (val in thousandths)
convert_units(val, fromUnit, toUnit) ==
    LET e == Factor(fromUnit, toUnit)
    IN  Frac(val * Pow(60, e[1]) * Pow(10, e[2]), Pow(60, 0 - e[1]) * Pow(10, 0 - e[2]))

\* the exception convert_str_units(abbr) raises, "" when it returns
convert_str_units_error(abbr) ==
    IF Len(abbr) < 3 THEN "IndexError"
    ELSE IF Ch(abbr, 2) = "s" \/ Ch(abbr, 2) = "m" \/ Ch(abbr, 2) = "h" THEN ""
    ELSE "ValueError"

\* convert_str_units(abbr) when it returns
convert_str_units(abbr) ==
    Ch(abbr, 0) \o "l" \o "/" \o
        (IF Ch(abbr, 2) = "s" THEN "sec"
         ELSE IF Ch(abbr, 2) = "m" THEN "min"
         ELSE "hor")

RECURSIVE DigitsEnd(_, _)
\* the index after the run of digits of s that starts at i
DigitsEnd(s, i) ==
    IF i < Len(s) /\ IsDigit(Ch(s, i)) THEN DigitsEnd(s, i + 1) ELSE i

\* the end of `\d+\.?\d*` matched greedily at i (i itself when no digit is there)
NumberEnd(s, i) ==
    LET F(a) == IF a > i /\ Slice(s, a, a + 1) = "." THEN DigitsEnd(s, a + 1) ELSE a
    IN  Once(F, DigitsEnd(s, i))

\* r"(\d+\.?\d*) ([mup][l])" matches at i
MatchesAt(s, i) ==
    \E b \in {NumberEnd(s, i)} :
        /\ b > i
        /\ Slice(s, b, b + 1) = " "
        /\ Slice(s, b + 1, b + 2) \in {"m", "u", "p"}
        /\ Slice(s, b + 2, b + 3) = "l"

\* re.search(r"(\d+\.?\d*) ([mup][l])", s): found, group(1), group(2)
Search(s) ==
    LET F(t) ==
            LET hits == { i \in 0..(Len(t) - 1) : MatchesAt(t, i) }
                G(i) == [found |-> TRUE, g1 |-> Slice(t, i, NumberEnd(t, i)),
                         g2 |-> Slice(t, NumberEnd(t, i) + 1, NumberEnd(t, i) + 3)]
            IN  IF hits = {} THEN [found |-> FALSE, g1 |-> "", g2 |-> ""]
                ELSE Once(G, CHOOSE i \in hits : \A k \in hits : i <= k)
    IN  Once(F, s)

\* str(v) of a float v given in thousandths: "12.5", "1500.0"
StrFloat(v) ==
    IntStr(v \div 1000) \o "." \o Digit((v % 1000) \div 100)
        \o RStrip(Digit((v \div 10) % 10) \o Digit(v % 10), "0")

----------------------------------------------------------------------------
(* class Pump: the transport *)

writeBare(addr, command) == command \o "\r"

\* Pump.write(command): the frame handed to serialcon.write
write(addr, command) == AddressStr(addr) \o command \o "\r"

\* serialcon.read(bytes): at most `bytes` of what the line delivers
Received(raw, bytes) == Slice(raw, 0, bytes)

\* Pump.read returns None (falls off the `pass` branch) on an empty read
ReadIsNone(raw, bytes) == Len(Received(raw, bytes)) = 0

\* Pump.read otherwise: decoded, '\n' removed
read(raw, bytes) == RemoveNL(Received(raw, bytes))

IsStatus3(c) == c = ":" \/ c = "<" \/ c = ">"

\* no number: the fraction a call carries when it parsed no returned value
NoValue == <<0, 0>>

\* what a call does: outcome, frames written, replies read, whether it
\* assigns its field (or the state) and the value assigned, and the value
\* it parsed from the re-query (a fraction of thousandths)
Res(outcome, frames, replies, stored, value, returned) ==
    [outcome |-> outcome, frames |-> frames, replies |-> replies,
     stored |-> stored, value |-> value, returned |-> returned]

Call(op, val, unit, r) ==
    [op |-> op, val |-> val, unit |-> unit, outcome |-> r.outcome,
     frames |-> r.frames, replies |-> r.replies, returned |-> r.returned]

IsIdleUnguarded(st) == TRUE

\* the guard `if self.state == 'idle'` of every setter and of infuse/withdraw
IsIdle(st) == st = "idle"

\* the frames on the line that no read followed, after a call that found u
\* of them: serialcon.read takes what the line holds, serialcon.write adds
AfterIO(u, r) == IF Len(r.replies) > 0 THEN 0 ELSE u + Len(r.frames)

\* the else branch of the guard: print("Please wait until pump is idle.")
Busy == Res("busy", <<>>, <<>>, FALSE, None, NoValue)

----------------------------------------------------------------------------
(* Pump.__init__ *)

\* the status character of the probe reply
ProbeState(c) ==
    IF c = ":" THEN "idle"
    ELSE IF c = ">" THEN "infusing"
    ELSE IF c = "<" THEN "withdrawing"
    ELSE "None"

\* try: write('ver'); read(17); address and status checks
InitResult(addr, raw) ==
    LET f == <<write(addr, "ver")>>
        rs == <<Received(raw, 17)>>
        resp == read(raw, 17)
        Fail(e) == Res(e, f, rs, FALSE, "None", NoValue)
    IN  IF ReadIsNone(raw, 17) THEN Fail("TypeError")
        ELSE IF ParseInt(Slice(resp, 0, 2)) = None THEN Fail("ValueError")
        ELSE IF ParseInt(Slice(resp, 0, 2)) # ParseInt(AddressStr(addr))
             THEN Fail("PumpError")
        ELSE IF Len(resp) < 3 THEN Fail("IndexError")
        ELSE IF ProbeState(Ch(resp, 2)) = "None" THEN Fail("PumpError")
        ELSE Res("ok", f, rs, TRUE, ProbeState(Ch(resp, 2)), NoValue)

\* Pump2000.__init__: the status character, the last of the reply
ProbeState2000(c) ==
    IF c = "*" THEN "stalled" ELSE ProbeState(c)

\* Pump2000.__init__: try: write('VER'); read(17); 'PHD' and status checks
Init2000Result(addr, raw) ==
    LET f == <<write(addr, "VER")>>
        rs == <<Received(raw, 17)>>
        resp == read(raw, 17)
        Fail(e) == Res(e, f, rs, FALSE, "None", NoValue)
    IN  IF ReadIsNone(raw, 17) THEN Fail("TypeError")
        ELSE IF ~Contains(resp, "PHD") THEN Fail("PumpError")
        ELSE IF ProbeState2000(Ch(resp, Len(resp) - 1)) = "None" THEN Fail("PumpError")
        ELSE Res("ok", f, rs, TRUE, ProbeState2000(Ch(resp, Len(resp) - 1)), NoValue)

\* except PumpError: self.serialcon.close()
ClosesOn(outcome) == outcome = "PumpError"

----------------------------------------------------------------------------
(* Pump.setdiameter *)

DiameterOutOfRangeExclusive(d) == d >= 35000 \/ d <= 100

\* diameter > 35 or diameter < 0.1
DiameterOutOfRange(d) == d > 35000 \/ d < 100

\* last_line[2] == ':' or last_line[2] == '<' or last_line[2] == '>'
DiameterConfirmed(last_line) == IsStatus3(Ch(last_line, 2))

AcceptAlways(returned, requested) == TRUE

\* the comparison after a re-query, `returned != requested ... elif
\* returned == requested`: the field is assigned only in the second branch
Accept(returned, requested) == ~(returned # requested)

SetDiameterFrameUnformatted(addr, d) == write(addr, "diameter " \o IntStr(d \div 1000))

\* self.write('diameter ' + "%2.2f" % diameter)
SetDiameterFrame(addr, d) == write(addr, "diameter " \o Fmt2(d))

\* the body of setdiameter under the idle guard
SetDiameterResult(addr, d, raw1, raw2) ==
    IF DiameterOutOfRange(d) THEN Res("PumpError", <<>>, <<>>, FALSE, None, NoValue)
    ELSE
    LET f1 == <<SetDiameterFrame(addr, d)>>
        r1 == <<Received(raw1, 80)>>
        lines == SplitLines(read(raw1, 80))
        last_line == lines[Len(lines)]
        f2 == f1 \o <<write(addr, "diameter")>>
        r2 == r1 \o <<Received(raw2, 45)>>
        returned_diameter == ParseFloat(remove_crud(Slice(read(raw2, 45), 3, 9)))
        Fail1(e) == Res(e, f1, r1, FALSE, None, NoValue)
        Fail2(e) == Res(e, f2, r2, FALSE, None, NoValue)
    IN  IF ReadIsNone(raw1, 80) THEN Fail1("AttributeError")
        ELSE IF Len(lines) = 0 THEN Fail1("IndexError")
        ELSE IF Len(last_line) < 3 THEN Fail1("IndexError")
        ELSE IF ~DiameterConfirmed(last_line) THEN Fail1("PumpError")
        ELSE IF ReadIsNone(raw2, 45) THEN Fail2("TypeError")
        ELSE IF returned_diameter = None THEN Fail2("ValueError")
        ELSE Res("ok", f2, r2, Accept(<<returned_diameter, 1>>, <<d, 1>>),
                 returned_diameter, <<returned_diameter, 1>>)

----------------------------------------------------------------------------
(* Pump.setwithdrawrate, Pump.setinfusionrate *)

\* resp[2] == ':' or resp[2] == '<' or resp[2] == '>'
WithdrawRateConfirmed(resp) == IsStatus3(Ch(resp, 2))

\* ":" in resp or "<" in resp or ">" in resp
InfusionRateConfirmed(resp) ==
    Contains(resp, ":") \/ Contains(resp, "<") \/ Contains(resp, ">")

ReconcileSent(f, rs, returned, requested) == Res("ok", f, rs, TRUE, requested, returned)

\* the end of a setter once the returned value is converted: compare, store
Reconcile(f, rs, returned, requested) ==
    Res("ok", f, rs, Accept(returned, <<requested, 1>>),
        returned[1] \div returned[2], returned)

\* the body of setwithdrawrate under the idle guard
SetWithdrawRateResult(addr, flowrate_, unit, raw1, raw2) ==
    LET f1 == <<write(addr, "wrate " \o StrFloat(flowrate_) \o " " \o unit)>>
        r1 == <<Received(raw1, 7)>>
        resp1 == read(raw1, 7)
        f2 == f1 \o <<write(addr, "wrate")>>
        r2 == r1 \o <<Received(raw2, 150)>>
        lines == SplitLines(read(raw2, 150))
        resp == lines[1]
        idx1 == Find(resp, Ch(StrFloat(flowrate_), 0))
        idx2 == Find(resp, "l/")
        returned_flowrate == ParseFloat(remove_crud(Slice(resp, idx1, idx2 - 1)))
        returned_unit == Slice(resp, idx2 - 1, idx2 + 5)
        Fail1(e) == Res(e, f1, r1, FALSE, None, NoValue)
        Fail2(e) == Res(e, f2, r2, FALSE, None, NoValue)
    IN  IF ReadIsNone(raw1, 7) THEN Fail1("TypeError")
        ELSE IF Len(resp1) < 3 THEN Fail1("IndexError")
        ELSE IF ~WithdrawRateConfirmed(resp1) THEN Fail1("PumpError")
        ELSE IF ReadIsNone(raw2, 150) THEN Fail2("AttributeError")
        ELSE IF Len(lines) = 0 THEN Fail2("IndexError")
        ELSE IF Contains(resp, "Argument error") THEN Fail2("PumpError")
        ELSE IF returned_flowrate = None THEN Fail2("ValueError")
        ELSE IF convert_str_units_error(unit) # "" THEN Fail2(convert_str_units_error(unit))
        ELSE Reconcile(f2, r2,
                       convert_units(returned_flowrate, returned_unit, convert_str_units(unit)),
                       flowrate_)

\* the body of setinfusionrate under the idle guard
SetInfusionRateResult(addr, flowrate_, unit, raw1, raw2) ==
    LET f1 == <<write(addr, "irate " \o StrFloat(flowrate_) \o " " \o unit)>>
        r1 == <<Received(raw1, 17)>>
        f2 == f1 \o <<write(addr, "irate")>>
        r2 == r1 \o <<Received(raw2, 150)>>
        resp == read(raw2, 150)
        matches == Search(resp)
        Fail1(e) == Res(e, f1, r1, FALSE, None, NoValue)
        Fail2(e) == Res(e, f2, r2, FALSE, None, NoValue)
    IN  IF ReadIsNone(raw1, 17) THEN Fail1("TypeError")
        ELSE IF ~InfusionRateConfirmed(read(raw1, 17)) THEN Fail1("PumpError")
        ELSE IF ReadIsNone(raw2, 150) THEN Fail2("TypeError")
        ELSE IF Contains(resp, "error") THEN Fail2("PumpError")
        ELSE IF ~matches.found THEN Fail2("PumpError")
        ELSE IF convert_str_units_error(unit) # "" THEN Fail2(convert_str_units_error(unit))
        ELSE Reconcile(f2, r2,
                       convert_units(ParseFloat(matches.g1), matches.g2, convert_str_units(unit)),
                       flowrate_)

----------------------------------------------------------------------------
(* Pump.settargetvolume, Pump.setsyringevolume, Pump.getsyringevolume *)

\* `if True:` - the reply to the set command is read and not looked at
TargetVolumeConfirmed(raw) == TRUE

\* the body of settargetvolume under the idle guard
SetTargetVolumeResult(addr, targetvolume_, unit, raw1, raw2) ==
    LET f1 == <<write(addr, "tvolume " \o StrFloat(targetvolume_) \o " " \o unit)>>
        r1 == <<Received(raw1, 7)>>
        f2 == f1 \o <<write(addr, "tvolume")>>
        r2 == r1 \o <<Received(raw2, 150)>>
        resp == read(raw2, 150)
        matches == Search(resp)
        Fail1(e) == Res(e, f1, r1, FALSE, None, NoValue)
        Fail2(e) == Res(e, f2, r2, FALSE, None, NoValue)
    IN  IF ~TargetVolumeConfirmed(raw1) THEN Fail1("PumpError")
        ELSE IF ReadIsNone(raw2, 150) THEN Fail2("TypeError")
        ELSE IF Contains(resp, "Target volume not set") THEN Fail2("PumpError")
        ELSE IF ~matches.found THEN Fail2("PumpError")
        ELSE IF convert_str_units_error(unit \o "/min") # ""
             THEN Fail2(convert_str_units_error(unit \o "/min"))
        ELSE Reconcile(f2, r2,
                       convert_units(ParseFloat(matches.g1), matches.g2 \o "/min",
                                     convert_str_units(unit \o "/min")),
                       targetvolume_)

\* resp[-1] == ':' or resp[-1] == '<' or resp[-1] == '>'
SyringeVolumeConfirmed(resp) == IsStatus3(Ch(resp, Len(resp) - 1))

\* the body of setsyringevolume under the idle guard, getsyringevolume inlined
SetSyringeVolumeResult(addr, vol, unit, raw1, raw2) ==
    LET f1 == <<write(addr, "svolume " \o StrFloat(vol) \o " " \o unit \o "l")>>
        r1 == <<Received(raw1, 10)>>
        resp1 == read(raw1, 10)
        f2 == f1 \o <<write(addr, "svolume")>>
        r2 == r1 \o <<Received(raw2, 60)>>
        matches == Search(read(raw2, 60))
        volume_str == matches.g1 \o " " \o matches.g2
        returned_volume == ParseFloat(Slice(volume_str, 0, -3))
        returned_unit == Slice(volume_str, -2, Len(volume_str))
        Fail1(e) == Res(e, f1, r1, FALSE, None, NoValue)
        Fail2(e) == Res(e, f2, r2, FALSE, None, NoValue)
    IN  IF ReadIsNone(raw1, 10) THEN Fail1("TypeError")
        ELSE IF Len(resp1) = 0 THEN Fail1("IndexError")
        ELSE IF ~SyringeVolumeConfirmed(resp1) THEN Fail1("PumpError")
        ELSE IF ReadIsNone(raw2, 60) THEN Fail2("TypeError")
        ELSE IF ~matches.found THEN Fail2("PumpError")
        ELSE IF returned_volume = None THEN Fail2("ValueError")
        ELSE IF convert_str_units_error(unit \o "/min") # ""
             THEN Fail2(convert_str_units_error(unit \o "/min"))
        ELSE Reconcile(f2, r2,
                       convert_units(returned_volume, returned_unit \o "/min",
                                     convert_str_units(unit \o "/min")),
                       vol)

----------------------------------------------------------------------------
(* Pump.infuse, Pump.withdraw, Pump.waituntilfinished, Pump.stop *)

\* the body of infuse (command 'irun', 55 bytes) and of withdraw ('wrun',
\* 85 bytes) under the idle guard; the value is the state assigned
RunResult(addr, command, bytes, moving, raw) ==
    LET f == <<write(addr, command)>>
        rs == <<Received(raw, bytes)>>
        resp == read(raw, bytes)
        Fail(e) == Res(e, f, rs, FALSE, "None", NoValue)
    IN  IF ReadIsNone(raw, bytes) THEN Fail("TypeError")
        ELSE IF Contains(resp, "Command error")
             THEN IF Len(SplitLines(resp)) < 2 THEN Fail("IndexError")
                  ELSE Fail("PumpError")
        ELSE Res("ok", f, rs, TRUE, moving, NoValue)

\* threading.Thread(target=self.waituntilfinished): the thread object is
\* constructed and dropped; start() is not called on it
ThreadAfterRun(th) == "created"

IsMovingAlways(st) == TRUE

\* the loop test of waituntilfinished
IsMoving(st) == st = "infusing" \/ st = "withdrawing"

\* 'T*' in resp
HasMarker(resp) == Contains(resp, "T*")

PollResultUncaught(raw) ==
    Res("TypeError", <<>>, <<Received(raw, 5)>>, FALSE, "None", NoValue)

\* one pass of the body of the loop of waituntilfinished; an exception of
\* the body (the None of an empty read) is swallowed by the bare except
PollResult(raw) ==
    LET rs == <<Received(raw, 5)>>
    IN  IF ReadIsNone(raw, 5) THEN Res("polling", <<>>, rs, FALSE, "None", NoValue)
        ELSE IF HasMarker(read(raw, 5)) THEN Res("finished", <<>>, rs, TRUE, "idle", NoValue)
        ELSE Res("polling", <<>>, rs, FALSE, "None", NoValue)

StopResultAssumed(addr, raw) ==
    Res("PumpError", <<write(addr, "stop")>>, <<Received(raw, 5)>>, TRUE, "idle", NoValue)

\* the body of stop
StopResult(addr, raw) ==
    LET f == <<write(addr, "stop")>>
        rs == <<Received(raw, 5)>>
        resp == read(raw, 5)
    IN  IF ReadIsNone(raw, 5) THEN Res("TypeError", f, rs, FALSE, "None", NoValue)
        ELSE IF Slice(resp, 0, 3) # AddressStr(addr) \o ":"
             THEN Res("PumpError", f, rs, FALSE, "None", NoValue)
        ELSE Res("ok", f, rs, TRUE, "idle", NoValue)

\* what a getter returns: the text of the number and of the unit
Returned(m) == m.g1 \o " " \o m.g2

\* the body of gettargetvolume
GetTargetVolumeResult(addr, raw) ==
    LET f == <<write(addr, "tvolume")>>
        rs == <<Received(raw, 150)>>
        resp == read(raw, 150)
        matches == Search(resp)
        Fail(e) == Res(e, f, rs, FALSE, None, NoValue)
    IN  IF ReadIsNone(raw, 150) THEN Fail("TypeError")
        ELSE IF Contains(resp, "Target volume not set") THEN Fail("PumpError")
        ELSE IF ~matches.found THEN Fail("PumpError")
        ELSE Res("ok", f, rs, FALSE, None, Returned(matches))

GetVolumeSilent(addr, command, bytes, raw) == Busy

\* the body of getsyringevolume ('svolume', 60 bytes), of ivolume
\* ('ivolume', 55) and of wvolume ('wvolume', 55)
GetVolumeResult(addr, command, bytes, raw) ==
    LET f == <<write(addr, command)>>
        rs == <<Received(raw, bytes)>>
        matches == Search(read(raw, bytes))
        Fail(e) == Res(e, f, rs, FALSE, None, NoValue)
    IN  IF ReadIsNone(raw, bytes) THEN Fail("TypeError")
        ELSE IF ~matches.found THEN Fail("PumpError")
        ELSE Res("ok", f, rs, FALSE, None, Returned(matches))

\* the body of civolume, ctvolume and cwvolume: one write and no read
ClearResult(addr, command) ==
    Res("ok", <<write(addr, command)>>, <<>>, FALSE, None, NoValue)

\* the body of cvolume: civolume() then cwvolume()
CvolumeResult(addr) ==
    Res("ok", ClearResult(addr, "civolume").frames \o ClearResult(addr, "cwvolume").frames,
        <<>>, FALSE, None, NoValue)

----------------------------------------------------------------------------
(* class Pump2000: the methods it overrides or adds.  It does not override  *)
(* write, so its frames are built by Pump.write.                            *)

errorcheckLenient(resp) == "idle"

\* _errorcheck(resp): the state it assigns, "None" when it raises PumpError
errorcheck(resp) ==
    LET F(c) ==
            CASE c = ":" -> "idle"
              [] c = ">" -> "infusing"
              [] c = "<" -> "withdrawing"
              [] c = "*" -> "stalled"
              [] OTHER -> "None"
    IN  Once(F, Ch(resp, Len(resp) - 1))

\* a first call followed, when it returned, by a second one
Then(r, q) ==
    IF r.outcome # "ok" THEN r
    ELSE Res(q.outcome, r.frames \o q.frames, r.replies \o q.replies,
             r.stored \/ q.stored, IF q.stored THEN q.value ELSE r.value, q.returned)

\* write(command); resp = read(bytes); _errorcheck(resp); then self.state =
\* after when the method assigns the state itself (after # "")
CommandResult(addr, command, bytes, after, raw) ==
    LET f == <<write(addr, command)>>
        rs == <<Received(raw, bytes)>>
        checked == errorcheck(read(raw, bytes))
    IN  IF ReadIsNone(raw, bytes) THEN Res("TypeError", f, rs, FALSE, "None", NoValue)
        ELSE IF Len(read(raw, bytes)) = 0 THEN Res("IndexError", f, rs, FALSE, "None", NoValue)
        ELSE IF checked = "None" THEN Res("PumpError", f, rs, FALSE, "None", NoValue)
        ELSE Res("ok", f, rs, TRUE, IF after = "" THEN checked ELSE after, NoValue)

\* Pump2000.run
run(addr, raw) == CommandResult(addr, "RUN", 17, "infusing", raw)

\* Pump2000.rev
rev(addr, raw) == CommandResult(addr, "REV", 17, "withdrawing", raw)

stopUnchecked(addr, raw) == CommandResult(addr, "STP", 17, "", raw)

\* Pump2000.stop: the state is the one _errorcheck assigned when
\* 'Pump could not be stopped' is raised
stop(addr, raw) ==
    LET r == CommandResult(addr, "STP", 17, "", raw)
    IN  IF r.outcome = "ok" /\ IsMoving(r.value)
        THEN Res("PumpError", r.frames, r.replies, TRUE, r.value, NoValue)
        ELSE r

\* Pump2000.infuse: run(), and stop() and rev() if the state is then
\* 'withdrawing'
infuse(addr, raw1, raw2, raw3) ==
    LET r == run(addr, raw1)
    IN  IF r.outcome = "ok" /\ r.value = "withdrawing"
        THEN Then(Then(r, stop(addr, raw2)), rev(addr, raw3))
        ELSE r

\* Pump2000.withdraw: rev(), and stop() and run() if the state is then
\* 'infusing'
withdraw(addr, raw1, raw2, raw3) ==
    LET r == rev(addr, raw1)
    IN  IF r.outcome = "ok" /\ r.value = "infusing"
        THEN Then(Then(r, stop(addr, raw2)), run(addr, raw3))
        ELSE r

\* "%4.4f" % flowrate, for a flowrate in thousandths
Fmt4(v) ==
    IntStr(v \div 1000) \o "." \o Digit((v % 1000) \div 100) \o Digit((v \div 10) % 10)
        \o Digit(v % 10) \o "0"

\* set_rate: the mnemonic of the units, "" when they are unknown
RateMnemonic(units) ==
    CASE units = "m/m" -> "MLM"
      [] units = "u/m" -> "ULM"
      [] units = "m/h" -> "MLH"
      [] units = "u/h" -> "ULH"
      [] OTHER -> ""

\* Pump2000.set_rate
set_rate(addr, flowrate_, units, raw) ==
    IF RateMnemonic(units) = "" THEN Res("PumpError", <<>>, <<>>, FALSE, "None", NoValue)
    ELSE CommandResult(addr, RateMnemonic(units) \o Fmt4(flowrate_), 17, "", raw)

\* set_rate assigns self.rate_units = "ml/h" in its 'm/h' branch only
RateUnitsAfter(old, units) == IF units = "m/h" THEN "ml/h" ELSE old

\* re.search(r"(\d+\.?\d*)", s): found and group(1)
SearchNumber(s) ==
    LET F(t) ==
            LET hits == { i \in 0..(Len(t) - 1) : IsDigit(Ch(t, i)) }
                G(i) == [found |-> TRUE, g1 |-> Slice(t, i, NumberEnd(t, i))]
            IN  IF hits = {} THEN [found |-> FALSE, g1 |-> ""]
                ELSE Once(G, CHOOSE i \in hits : \A k \in hits : i <= k)
    IN  Once(F, s)

\* getdiameter ('DIA', " mm"), ivolume ('VOL', " ml"), gettargetvolume
\* ('TAR', " ml"): the number is searched after _errorcheck assigned the state
QueryResult(addr, command, suffix, raw) ==
    LET r == CommandResult(addr, command, 17, "", raw)
        matches == SearchNumber(read(raw, 17))
    IN  IF r.outcome # "ok" THEN r
        ELSE IF ~matches.found
             THEN Res("PumpError", r.frames, r.replies, TRUE, r.value, NoValue)
        ELSE Res("ok", r.frames, r.replies, TRUE, r.value, matches.g1 \o suffix)

\* Pump2000.getrate: 'RAT' (19 bytes), and 'RNG' when a number was found
getrate(addr, raw1, raw2) ==
    LET r == CommandResult(addr, "RAT", 19, "", raw1)
        matches == SearchNumber(read(raw1, 19))
        q == CommandResult(addr, "RNG", 17, "", raw2)
        both == Then(r, q)
    IN  IF r.outcome # "ok" THEN r
        ELSE IF ~matches.found
             THEN Res("PumpError", r.frames, r.replies, TRUE, r.value, NoValue)
        ELSE IF q.outcome # "ok"
             THEN Res(q.outcome, both.frames, both.replies, TRUE, r.value, NoValue)
        ELSE Res("ok", both.frames, both.replies, TRUE, q.value,
                 matches.g1 \o " " \o Slice(read(raw2, 17), 0, 4))

\* '*' in resp
HasMarker2000(resp) == Contains(resp, "*")

\* one pass of the body of the loop of Pump2000.waituntilfinished
Poll2000Result(raw) ==
    LET rs == <<Received(raw, 5)>>
    IN  IF ReadIsNone(raw, 5) THEN Res("polling", <<>>, rs, FALSE, "None", NoValue)
        ELSE IF HasMarker2000(read(raw, 5)) THEN Res("finished", <<>>, rs, TRUE, "idle", NoValue)
        ELSE Res("polling", <<>>, rs, FALSE, "None", NoValue)

----------------------------------------------------------------------------
(* inputs: the arguments of the calls and what the line delivers to a read *)

Addresses == {3}

ProbeReplies ==
    {"03:", "\n03>", "03<", "04:", "03*", "03", "x3:", "", "PHD03:", "\nPHD04>", "PHD03*",
     "PHD03?", "04 PHD:"}

Diameters == {99, 100, 10000, 12347, 35000, 35001, 40000}

DiameterConfirmReplies == {"\n03:", "Er\r\n03<", "03?", "x:yz", "0:", ""}

DiameterQueryReplies ==
    {"\n03:10.000 mm", "03:35.000 mm", "03:12.35 mm", "03:0.0000 mm", ""}

Rates == {12500, 1500000}

RateUnits == {"u/m", "u/h"}

RateConfirmReplies == {"\n03:", "x:yz", "03?", "0", ""}

RateQueryReplies ==
    {"\n03:12.5 ul/min", "03:12.4 ul/min", "03:1.5 ml/min", "03:12.5 ul/hor",
     "Argument error: out of range\r\n03:", ""}

Volumes == {5000, 2500000}

VolumeUnits == {"m", "u"}

VolumeConfirmReplies == {"\n03:", "03?", "\n", ""}

VolumeQueryReplies ==
    {"\n03:5 ml", "03:4.9 ml", "Target volume not set\r\n03:", ""}

RunReplies ==
    {"\n03>", "03:", "\nCommand error:\r\n  Target not set\r\n03:",
     "Command error", "T*", ""}

PollReplies == {"", "03>", "\n03T*", "T"}

StopReplies == {"\n03:", "12:", "03>", "03", "T*03:", ""}

Replies2000 == {":", "\n12.5>", "10.0<", "*", "1.5?", ""}
RateUnits2000 == {"m/m", "u/m", "m/h", "u/h", "l/s"}
Diameters2000 == {10000}
Volumes2000 == {5000}
Poll2000Replies == {"", ">", "\n*", ":"}

\* every way a call can go over these inputs, computed from the bodies above
InitCalls ==
    { <<a, InitResult(a, raw)>> : a \in Addresses, raw \in ProbeReplies }

Init2000Calls ==
    { <<a, Init2000Result(a, raw)>> : a \in Addresses, raw \in ProbeReplies }

SetDiameterCalls ==
    { <<a, d, SetDiameterResult(a, d, raw1, raw2)>> :
        a \in Addresses, d \in Diameters,
        raw1 \in DiameterConfirmReplies, raw2 \in DiameterQueryReplies }

InfuseCalls ==
    { <<a, RunResult(a, "irun", 55, "infusing", raw)>> : a \in Addresses, raw \in RunReplies }

WithdrawCalls ==
    { <<a, RunResult(a, "wrun", 85, "withdrawing", raw)>> : a \in Addresses, raw \in RunReplies }

PollCalls == { PollResult(raw) : raw \in PollReplies }

StopCalls == { <<a, StopResult(a, raw)>> : a \in Addresses, raw \in StopReplies }

SetWithdrawRateCalls ==
    { <<a, v, u, SetWithdrawRateResult(a, v, u, raw1, raw2)>> :
        a \in Addresses, v \in Rates, u \in RateUnits,
        raw1 \in RateConfirmReplies, raw2 \in RateQueryReplies }

SetInfusionRateCalls ==
    { <<a, v, u, SetInfusionRateResult(a, v, u, raw1, raw2)>> :
        a \in Addresses, v \in Rates, u \in RateUnits,
        raw1 \in RateConfirmReplies, raw2 \in RateQueryReplies }

SetTargetVolumeCalls ==
    { <<a, v, u, SetTargetVolumeResult(a, v, u, raw1, raw2)>> :
        a \in Addresses, v \in Volumes, u \in VolumeUnits,
        raw1 \in VolumeConfirmReplies, raw2 \in VolumeQueryReplies }

SetSyringeVolumeCalls ==
    { <<a, v, u, SetSyringeVolumeResult(a, v, u, raw1, raw2)>> :
        a \in Addresses, v \in Volumes, u \in VolumeUnits,
        raw1 \in VolumeConfirmReplies, raw2 \in VolumeQueryReplies }

GetTargetVolumeCalls ==
    { <<a, GetTargetVolumeResult(a, raw)>> : a \in Addresses, raw \in VolumeQueryReplies }

GetSyringeVolumeCalls ==
    { <<a, GetVolumeResult(a, "svolume", 60, raw)>> : a \in Addresses, raw \in VolumeQueryReplies }

IvolumeCalls ==
    { <<a, GetVolumeResult(a, "ivolume", 55, raw)>> : a \in Addresses, raw \in VolumeQueryReplies }

WvolumeCalls ==
    { <<a, GetVolumeResult(a, "wvolume", 55, raw)>> : a \in Addresses, raw \in VolumeQueryReplies }

RunCalls == { <<a, run(a, raw)>> : a \in Addresses, raw \in Replies2000 }

RevCalls == { <<a, rev(a, raw)>> : a \in Addresses, raw \in Replies2000 }

Stop2000Calls == { <<a, stop(a, raw)>> : a \in Addresses, raw \in Replies2000 }

Infuse2000Calls ==
    { <<a, infuse(a, raw1, raw2, raw3)>> :
        a \in Addresses, raw1 \in Replies2000, raw2 \in Replies2000, raw3 \in Replies2000 }

Withdraw2000Calls ==
    { <<a, withdraw(a, raw1, raw2, raw3)>> :
        a \in Addresses, raw1 \in Replies2000, raw2 \in Replies2000, raw3 \in Replies2000 }

ClearAccumulatedVolumeCalls ==
    { <<a, CommandResult(a, "CLV", 17, "", raw)>> : a \in Addresses, raw \in Replies2000 }

ClearTargetVolumeCalls ==
    { <<a, CommandResult(a, "CLT", 17, "", raw)>> : a \in Addresses, raw \in Replies2000 }

SetRateCalls ==
    { <<a, v, u, set_rate(a, v, u, raw)>> :
        a \in Addresses, v \in Rates, u \in RateUnits2000, raw \in Replies2000 }

SetDiameter2000Calls ==
    { <<a, d, CommandResult(a, "MMD" \o StrFloat(d), 17, "", raw)>> :
        a \in Addresses, d \in Diameters2000, raw \in Replies2000 }

SetTargetVolume2000Calls ==
    { <<a, v, CommandResult(a, "MLT" \o StrFloat(v), 17, "", raw)>> :
        a \in Addresses, v \in Volumes2000, raw \in Replies2000 }

GetDiameterCalls ==
    { <<a, QueryResult(a, "DIA", " mm", raw)>> : a \in Addresses, raw \in Replies2000 }

GetRateCalls ==
    { <<a, getrate(a, raw1, raw2)>> :
        a \in Addresses, raw1 \in Replies2000, raw2 \in Replies2000 }

Ivolume2000Calls ==
    { <<a, QueryResult(a, "VOL", " ml", raw)>> : a \in Addresses, raw \in Replies2000 }

GetTargetVolume2000Calls ==
    { <<a, QueryResult(a, "TAR", " ml", raw)>> : a \in Addresses, raw \in Replies2000 }

Poll2000Calls == { Poll2000Result(raw) : raw \in Poll2000Replies }

----------------------------------------------------------------------------
(* the handle as a state machine *)

NoCall == [op |-> "Chain", val |-> None, unit |-> "", outcome |-> "ok",
           frames |-> <<>>, replies |-> <<>>, returned |-> NoValue]

\* one thread uses the handle: no second caller, no poller thread
NoTasks == [t1 |-> "ready", t2 |-> "ready", poller |-> "off"]

\* Chain.__init__: the port is open, no Pump exists yet
Init ==
    /\ open = TRUE
    /\ handle = "none"
    /\ address = None
    /\ state = "None"
    /\ diameter = None
    /\ flowrate = None
    /\ targetvolume = None
    /\ syringevolume = None
    /\ thread = "none"
    /\ pc = "ready"
    /\ unread = 0
    /\ tasks = NoTasks
    /\ rate_units = "unset"
    /\ lastOp = NoCall

\* Chain(port) after the port was closed by a failed probe
Chain ==
    /\ ~open
    /\ open' = TRUE
    /\ handle' = "none"
    /\ address' = None
    /\ state' = "None"
    /\ diameter' = None
    /\ flowrate' = None
    /\ targetvolume' = None
    /\ syringevolume' = None
    /\ thread' = "none"
    /\ pc' = "ready"
    /\ unread' = 0
    /\ tasks' = tasks
    /\ rate_units' = "unset"
    /\ lastOp' = NoCall

\* Pump(chain, address)
Construct ==
    /\ open
    /\ handle = "none"
    /\ \E c \in InitCalls :
        LET r == c[2]
        IN  /\ lastOp' = Call("init", c[1], "", r)
            /\ unread' = AfterIO(unread, r)
            /\ handle' = IF r.outcome = "ok" THEN "Pump" ELSE "none"
            /\ address' = IF r.outcome = "ok" THEN c[1] ELSE None
            /\ state' = r.value
            /\ open' = IF ClosesOn(r.outcome) THEN FALSE ELSE open
    /\ diameter' = None
    /\ flowrate' = None
    /\ targetvolume' = None
    /\ syringevolume' = None
    /\ UNCHANGED <<thread, pc, tasks, rate_units>>

\* Pump2000(chain, address)
Construct2000 ==
    /\ open
    /\ handle = "none"
    /\ \E c \in Init2000Calls :
        LET r == c[2]
        IN  /\ lastOp' = Call("init2000", c[1], "", r)
            /\ unread' = AfterIO(unread, r)
            /\ handle' = IF r.outcome = "ok" THEN "Pump2000" ELSE "none"
            /\ address' = IF r.outcome = "ok" THEN c[1] ELSE None
            /\ state' = r.value
            /\ open' = IF ClosesOn(r.outcome) THEN FALSE ELSE open
    /\ diameter' = None
    /\ flowrate' = None
    /\ targetvolume' = None
    /\ syringevolume' = None
    /\ UNCHANGED <<thread, pc, tasks, rate_units>>

\* the caller holds a Pump and is not inside a call
Callable == handle = "Pump" /\ pc = "ready"

\* the same for a method that Pump2000 inherits unchanged
CallableInherited == handle \in {"Pump", "Pump2000"} /\ pc = "ready"

\* pump.setdiameter(d)
SetDiameter ==
    /\ Callable
    /\ \E c \in SetDiameterCalls :
        /\ c[1] = address
        /\ LET r == IF IsIdle(state) THEN c[3] ELSE Busy
           IN  /\ lastOp' = Call("setdiameter", c[2], "", r)
               /\ unread' = AfterIO(unread, r)
               /\ diameter' = IF r.stored THEN r.value ELSE diameter
    /\ UNCHANGED <<open, handle, address, state, flowrate, targetvolume,
                   syringevolume, thread, pc, tasks, rate_units>>

\* pump.infuse()
Infuse ==
    /\ Callable
    /\ \E c \in InfuseCalls :
        /\ c[1] = address
        /\ LET r == IF IsIdle(state) THEN c[2] ELSE Busy
           IN  /\ lastOp' = Call("infuse", None, "", r)
               /\ unread' = AfterIO(unread, r)
               /\ state' = IF r.stored THEN r.value ELSE state
               /\ thread' = IF r.outcome = "ok" THEN ThreadAfterRun(thread) ELSE thread
    /\ UNCHANGED <<open, handle, address, diameter, flowrate, targetvolume,
                   syringevolume, pc, tasks, rate_units>>

\* pump.withdraw()
Withdraw ==
    /\ Callable
    /\ \E c \in WithdrawCalls :
        /\ c[1] = address
        /\ LET r == IF IsIdle(state) THEN c[2] ELSE Busy
           IN  /\ lastOp' = Call("withdraw", None, "", r)
               /\ unread' = AfterIO(unread, r)
               /\ state' = IF r.stored THEN r.value ELSE state
               /\ thread' = IF r.outcome = "ok" THEN ThreadAfterRun(thread) ELSE thread
    /\ UNCHANGED <<open, handle, address, diameter, flowrate, targetvolume,
                   syringevolume, pc, tasks, rate_units>>

\* pump.waituntilfinished() called by the caller: entry
WaitCall ==
    /\ Callable
    /\ pc' = "polling"
    /\ lastOp' = Call("waituntilfinished", None, "",
                      Res("called", <<>>, <<>>, FALSE, "None", NoValue))
    /\ unread' = unread
    /\ UNCHANGED <<open, handle, address, state, diameter, flowrate, targetvolume,
                   syringevolume, thread, tasks, rate_units>>

\* the loop test of waituntilfinished and, when it holds, one pass of the body
WaitStep ==
    /\ handle = "Pump"
    /\ pc = "polling"
    /\ \E c \in PollCalls :
        LET r == IF IsMoving(state) THEN c
                 ELSE Res("returned", <<>>, <<>>, FALSE, "None", NoValue)
        IN  /\ lastOp' = Call("waituntilfinished", None, "", r)
            /\ unread' = AfterIO(unread, r)
            /\ state' = IF r.stored THEN r.value ELSE state
            /\ pc' = IF r.outcome = "polling" THEN "polling" ELSE "ready"
    /\ UNCHANGED <<open, handle, address, diameter, flowrate, targetvolume,
                   syringevolume, thread, tasks, rate_units>>

\* pump.stop()
Stop ==
    /\ Callable
    /\ \E c \in StopCalls :
        /\ c[1] = address
        /\ LET r == c[2]
           IN  /\ lastOp' = Call("stop", None, "", r)
               /\ unread' = AfterIO(unread, r)
               /\ state' = IF r.stored THEN r.value ELSE state
    /\ UNCHANGED <<open, handle, address, diameter, flowrate, targetvolume,
                   syringevolume, thread, pc, tasks, rate_units>>

\* pump.setwithdrawrate(flowrate, unit)
SetWithdrawRate ==
    /\ CallableInherited
    /\ \E c \in SetWithdrawRateCalls :
        /\ c[1] = address
        /\ LET r == IF IsIdle(state) THEN c[4] ELSE Busy
           IN  /\ lastOp' = Call("setwithdrawrate", c[2], c[3], r)
               /\ unread' = AfterIO(unread, r)
               /\ flowrate' = IF r.stored THEN r.value ELSE flowrate
    /\ UNCHANGED <<open, handle, address, state, diameter, targetvolume,
                   syringevolume, thread, pc, tasks, rate_units>>

\* pump.setinfusionrate(flowrate, unit)
SetInfusionRate ==
    /\ CallableInherited
    /\ \E c \in SetInfusionRateCalls :
        /\ c[1] = address
        /\ LET r == IF IsIdle(state) THEN c[4] ELSE Busy
           IN  /\ lastOp' = Call("setinfusionrate", c[2], c[3], r)
               /\ unread' = AfterIO(unread, r)
               /\ flowrate' = IF r.stored THEN r.value ELSE flowrate
    /\ UNCHANGED <<open, handle, address, state, diameter, targetvolume,
                   syringevolume, thread, pc, tasks, rate_units>>

\* pump.settargetvolume(targetvolume, unit)
SetTargetVolume ==
    /\ Callable
    /\ \E c \in SetTargetVolumeCalls :
        /\ c[1] = address
        /\ LET r == IF IsIdle(state) THEN c[4] ELSE Busy
           IN  /\ lastOp' = Call("settargetvolume", c[2], c[3], r)
               /\ unread' = AfterIO(unread, r)
               /\ targetvolume' = IF r.stored THEN r.value ELSE targetvolume
    /\ UNCHANGED <<open, handle, address, state, diameter, flowrate,
                   syringevolume, thread, pc, tasks, rate_units>>

\* pump.setsyringevolume(vol, unit)
SetSyringeVolume ==
    /\ CallableInherited
    /\ \E c \in SetSyringeVolumeCalls :
        /\ c[1] = address
        /\ LET r == IF IsIdle(state) THEN c[4] ELSE Busy
           IN  /\ lastOp' = Call("setsyringevolume", c[2], c[3], r)
               /\ unread' = AfterIO(unread, r)
               /\ syringevolume' = IF r.stored THEN r.value ELSE syringevolume
    /\ UNCHANGED <<open, handle, address, state, diameter, flowrate,
                   targetvolume, thread, pc, tasks, rate_units>>

\* the frames a model run lets pile up on the line without a read
MaxUnread == 2

\* pump.civolume()
Civolume ==
    /\ CallableInherited
    /\ LET r == ClearResult(address, "civolume")
       IN  /\ unread + Len(r.frames) <= MaxUnread
           /\ lastOp' = Call("civolume", None, "", r)
           /\ unread' = AfterIO(unread, r)
    /\ UNCHANGED <<open, handle, address, state, diameter, flowrate, targetvolume,
                   syringevolume, thread, pc, tasks, rate_units>>

\* pump.ctvolume()
Ctvolume ==
    /\ CallableInherited
    /\ LET r == ClearResult(address, "ctvolume")
       IN  /\ unread + Len(r.frames) <= MaxUnread
           /\ lastOp' = Call("ctvolume", None, "", r)
           /\ unread' = AfterIO(unread, r)
    /\ UNCHANGED <<open, handle, address, state, diameter, flowrate, targetvolume,
                   syringevolume, thread, pc, tasks, rate_units>>

\* pump.cwvolume()
Cwvolume ==
    /\ CallableInherited
    /\ LET r == ClearResult(address, "cwvolume")
       IN  /\ unread + Len(r.frames) <= MaxUnread
           /\ lastOp' = Call("cwvolume", None, "", r)
           /\ unread' = AfterIO(unread, r)
    /\ UNCHANGED <<open, handle, address, state, diameter, flowrate, targetvolume,
                   syringevolume, thread, pc, tasks, rate_units>>

\* pump.cvolume()
Cvolume ==
    /\ CallableInherited
    /\ LET r == CvolumeResult(address)
       IN  /\ unread + Len(r.frames) <= MaxUnread
           /\ lastOp' = Call("cvolume", None, "", r)
           /\ unread' = AfterIO(unread, r)
    /\ UNCHANGED <<open, handle, address, state, diameter, flowrate, targetvolume,
                   syringevolume, thread, pc, tasks, rate_units>>

\* pump.gettargetvolume()
GetTargetVolume ==
    /\ Callable
    /\ \E c \in GetTargetVolumeCalls :
        /\ c[1] = address
        /\ LET r == c[2]
           IN  /\ lastOp' = Call("gettargetvolume", None, "", r)
               /\ unread' = AfterIO(unread, r)
    /\ UNCHANGED <<open, handle, address, state, diameter, flowrate, targetvolume,
                   syringevolume, thread, pc, tasks, rate_units>>

\* pump.getsyringevolume()
GetSyringeVolume ==
    /\ CallableInherited
    /\ \E c \in GetSyringeVolumeCalls :
        /\ c[1] = address
        /\ LET r == c[2]
           IN  /\ lastOp' = Call("getsyringevolume", None, "", r)
               /\ unread' = AfterIO(unread, r)
    /\ UNCHANGED <<open, handle, address, state, diameter, flowrate, targetvolume,
                   syringevolume, thread, pc, tasks, rate_units>>

\* pump.ivolume()
Ivolume ==
    /\ Callable
    /\ \E c \in IvolumeCalls :
        /\ c[1] = address
        /\ LET r == c[2]
           IN  /\ lastOp' = Call("ivolume", None, "", r)
               /\ unread' = AfterIO(unread, r)
    /\ UNCHANGED <<open, handle, address, state, diameter, flowrate, targetvolume,
                   syringevolume, thread, pc, tasks, rate_units>>

\* pump.wvolume()
Wvolume ==
    /\ CallableInherited
    /\ \E c \in WvolumeCalls :
        /\ c[1] = address
        /\ LET r == c[2]
           IN  /\ lastOp' = Call("wvolume", None, "", r)
               /\ unread' = AfterIO(unread, r)
    /\ UNCHANGED <<open, handle, address, state, diameter, flowrate, targetvolume,
                   syringevolume, thread, pc, tasks, rate_units>>

\* the caller holds a Pump2000 and is not inside a call
Callable2000 == handle = "Pump2000" /\ pc = "ready"

\* pump2000.run()
Run ==
    /\ Callable2000
    /\ \E c \in RunCalls :
        /\ c[1] = address
        /\ LET r == c[2]
           IN  /\ lastOp' = Call("Pump2000.run", None, "", r)
               /\ unread' = AfterIO(unread, r)
               /\ state' = IF r.stored THEN r.value ELSE state
    /\ UNCHANGED <<open, handle, address, diameter, flowrate, targetvolume,
                   syringevolume, thread, pc, tasks, rate_units>>

\* pump2000.rev()
Rev ==
    /\ Callable2000
    /\ \E c \in RevCalls :
        /\ c[1] = address
        /\ LET r == c[2]
           IN  /\ lastOp' = Call("Pump2000.rev", None, "", r)
               /\ unread' = AfterIO(unread, r)
               /\ state' = IF r.stored THEN r.value ELSE state
    /\ UNCHANGED <<open, handle, address, diameter, flowrate, targetvolume,
                   syringevolume, thread, pc, tasks, rate_units>>

\* pump2000.infuse()
Infuse2000 ==
    /\ Callable2000
    /\ \E c \in Infuse2000Calls :
        /\ c[1] = address
        /\ LET r == c[2]
           IN  /\ lastOp' = Call("Pump2000.infuse", None, "", r)
               /\ unread' = AfterIO(unread, r)
               /\ state' = IF r.stored THEN r.value ELSE state
    /\ UNCHANGED <<open, handle, address, diameter, flowrate, targetvolume,
                   syringevolume, thread, pc, tasks, rate_units>>

\* pump2000.withdraw()
Withdraw2000 ==
    /\ Callable2000
    /\ \E c \in Withdraw2000Calls :
        /\ c[1] = address
        /\ LET r == c[2]
           IN  /\ lastOp' = Call("Pump2000.withdraw", None, "", r)
               /\ unread' = AfterIO(unread, r)
               /\ state' = IF r.stored THEN r.value ELSE state
    /\ UNCHANGED <<open, handle, address, diameter, flowrate, targetvolume,
                   syringevolume, thread, pc, tasks, rate_units>>

\* pump2000.stop()
Stop2000 ==
    /\ Callable2000
    /\ \E c \in Stop2000Calls :
        /\ c[1] = address
        /\ LET r == c[2]
           IN  /\ lastOp' = Call("Pump2000.stop", None, "", r)
               /\ unread' = AfterIO(unread, r)
               /\ state' = IF r.stored THEN r.value ELSE state
    /\ UNCHANGED <<open, handle, address, diameter, flowrate, targetvolume,
                   syringevolume, thread, pc, tasks, rate_units>>

\* pump2000.clear_accumulated_volume()
ClearAccumulatedVolume ==
    /\ Callable2000
    /\ \E c \in ClearAccumulatedVolumeCalls :
        /\ c[1] = address
        /\ LET r == c[2]
           IN  /\ lastOp' = Call("Pump2000.clear_accumulated_volume", None, "", r)
               /\ unread' = AfterIO(unread, r)
               /\ state' = IF r.stored THEN r.value ELSE state
    /\ UNCHANGED <<open, handle, address, diameter, flowrate, targetvolume,
                   syringevolume, thread, pc, tasks, rate_units>>

\* pump2000.clear_target_volume()
ClearTargetVolume ==
    /\ Callable2000
    /\ \E c \in ClearTargetVolumeCalls :
        /\ c[1] = address
        /\ LET r == c[2]
           IN  /\ lastOp' = Call("Pump2000.clear_target_volume", None, "", r)
               /\ unread' = AfterIO(unread, r)
               /\ state' = IF r.stored THEN r.value ELSE state
    /\ UNCHANGED <<open, handle, address, diameter, flowrate, targetvolume,
                   syringevolume, thread, pc, tasks, rate_units>>

\* pump2000.setdiameter(diameter)
SetDiameter2000 ==
    /\ Callable2000
    /\ \E c \in SetDiameter2000Calls :
        /\ c[1] = address
        /\ LET r == c[3]
           IN  /\ lastOp' = Call("Pump2000.setdiameter", c[2], "", r)
               /\ unread' = AfterIO(unread, r)
               /\ state' = IF r.stored THEN r.value ELSE state
    /\ UNCHANGED <<open, handle, address, diameter, flowrate, targetvolume,
                   syringevolume, thread, pc, tasks, rate_units>>

\* pump2000.settargetvolume(volume)
SetTargetVolume2000 ==
    /\ Callable2000
    /\ \E c \in SetTargetVolume2000Calls :
        /\ c[1] = address
        /\ LET r == c[3]
           IN  /\ lastOp' = Call("Pump2000.settargetvolume", c[2], "", r)
               /\ unread' = AfterIO(unread, r)
               /\ state' = IF r.stored THEN r.value ELSE state
    /\ UNCHANGED <<open, handle, address, diameter, flowrate, targetvolume,
                   syringevolume, thread, pc, tasks, rate_units>>

\* pump2000.getdiameter()
GetDiameter ==
    /\ Callable2000
    /\ \E c \in GetDiameterCalls :
        /\ c[1] = address
        /\ LET r == c[2]
           IN  /\ lastOp' = Call("Pump2000.getdiameter", None, "", r)
               /\ unread' = AfterIO(unread, r)
               /\ state' = IF r.stored THEN r.value ELSE state
    /\ UNCHANGED <<open, handle, address, diameter, flowrate, targetvolume,
                   syringevolume, thread, pc, tasks, rate_units>>

\* pump2000.getrate()
GetRate ==
    /\ Callable2000
    /\ \E c \in GetRateCalls :
        /\ c[1] = address
        /\ LET r == c[2]
           IN  /\ lastOp' = Call("Pump2000.getrate", None, "", r)
               /\ unread' = AfterIO(unread, r)
               /\ state' = IF r.stored THEN r.value ELSE state
    /\ UNCHANGED <<open, handle, address, diameter, flowrate, targetvolume,
                   syringevolume, thread, pc, tasks, rate_units>>

\* pump2000.ivolume()
Ivolume2000 ==
    /\ Callable2000
    /\ \E c \in Ivolume2000Calls :
        /\ c[1] = address
        /\ LET r == c[2]
           IN  /\ lastOp' = Call("Pump2000.ivolume", None, "", r)
               /\ unread' = AfterIO(unread, r)
               /\ state' = IF r.stored THEN r.value ELSE state
    /\ UNCHANGED <<open, handle, address, diameter, flowrate, targetvolume,
                   syringevolume, thread, pc, tasks, rate_units>>

\* pump2000.gettargetvolume()
GetTargetVolume2000 ==
    /\ Callable2000
    /\ \E c \in GetTargetVolume2000Calls :
        /\ c[1] = address
        /\ LET r == c[2]
           IN  /\ lastOp' = Call("Pump2000.gettargetvolume", None, "", r)
               /\ unread' = AfterIO(unread, r)
               /\ state' = IF r.stored THEN r.value ELSE state
    /\ UNCHANGED <<open, handle, address, diameter, flowrate, targetvolume,
                   syringevolume, thread, pc, tasks, rate_units>>

\* pump2000.set_rate(flowrate, units)
SetRate ==
    /\ Callable2000
    /\ \E c \in SetRateCalls :
        /\ c[1] = address
        /\ LET r == c[4]
           IN  /\ lastOp' = Call("Pump2000.set_rate", c[2], c[3], r)
               /\ unread' = AfterIO(unread, r)
               /\ state' = IF r.stored THEN r.value ELSE state
               /\ rate_units' = RateUnitsAfter(rate_units, c[3])
    /\ UNCHANGED <<open, handle, address, diameter, flowrate, targetvolume,
                   syringevolume, thread, pc, tasks>>

\* pump2000.waituntilfinished() called by the caller: entry
WaitCall2000 ==
    /\ Callable2000
    /\ pc' = "polling"
    /\ lastOp' = Call("Pump2000.waituntilfinished", None, "",
                      Res("called", <<>>, <<>>, FALSE, "None", NoValue))
    /\ UNCHANGED <<open, handle, address, state, diameter, flowrate, targetvolume,
                   syringevolume, thread, unread, tasks, rate_units>>

\* the loop test of Pump2000.waituntilfinished and, when it holds, one pass
\* of the body
WaitStep2000 ==
    /\ handle = "Pump2000"
    /\ pc = "polling"
    /\ \E c \in Poll2000Calls :
        LET r == IF IsMoving(state) THEN c
                 ELSE Res("returned", <<>>, <<>>, FALSE, "None", NoValue)
        IN  /\ lastOp' = Call("Pump2000.waituntilfinished", None, "", r)
            /\ unread' = AfterIO(unread, r)
            /\ state' = IF r.stored THEN r.value ELSE state
            /\ pc' = IF r.outcome = "polling" THEN "polling" ELSE "ready"
    /\ UNCHANGED <<open, handle, address, diameter, flowrate, targetvolume,
                   syringevolume, thread, tasks, rate_units>>

Next ==
    \/ Chain
    \/ Construct
    \/ Construct2000
    \/ SetDiameter
    \/ SetWithdrawRate
    \/ SetInfusionRate
    \/ SetTargetVolume
    \/ SetSyringeVolume
    \/ Infuse
    \/ Withdraw
    \/ WaitCall
    \/ WaitStep
    \/ Stop
    \/ Civolume
    \/ Ctvolume
    \/ Cwvolume
    \/ Cvolume
    \/ GetTargetVolume
    \/ GetSyringeVolume
    \/ Ivolume
    \/ Wvolume
    \/ Run
    \/ Rev
    \/ Infuse2000
    \/ Withdraw2000
    \/ Stop2000
    \/ ClearAccumulatedVolume
    \/ ClearTargetVolume
    \/ SetRate
    \/ SetDiameter2000
    \/ SetTargetVolume2000
    \/ GetDiameter
    \/ GetRate
    \/ Ivolume2000
    \/ GetTargetVolume2000
    \/ WaitCall2000
    \/ WaitStep2000

Spec == Init /\ [][Next]_vars

----------------------------------------------------------------------------
(* threads sharing one handle: two callers and a thread that runs           *)
(* waituntilfinished.  A step is one serialcon.write or one serialcon.read  *)
(* with the statements that follow it up to the next one.                   *)

Callers == {"t1", "t2"}

rest == <<open, handle, address, diameter, flowrate, targetvolume, syringevolume, pc,
         rate_units>>

\* a Pump was made on the chain
TaskInit ==
    /\ open = TRUE
    /\ handle = "Pump"
    /\ \E c \in InitCalls :
        /\ c[2].outcome = "ok"
        /\ address = c[1]
        /\ state = c[2].value
        /\ lastOp = Call("init", c[1], "", c[2])
    /\ diameter = None
    /\ flowrate = None
    /\ targetvolume = None
    /\ syringevolume = None
    /\ thread = "none"
    /\ pc = "ready"
    /\ unread = 0
    /\ tasks = NoTasks
    /\ rate_units = "unset"

\* a method up to and including its self.write
Wrote(frame) == Res("wrote", <<frame>>, <<>>, FALSE, "None", NoValue)

\* stop(): self.write('stop')
TaskStopWrite ==
    /\ \E t \in Callers :
        /\ tasks[t] = "ready"
        /\ tasks' = [tasks EXCEPT ![t] = "stop"]
    /\ unread' = unread + 1
    /\ lastOp' = Call("stop", None, "", Wrote(write(address, "stop")))
    /\ UNCHANGED <<rest, state, thread>>

\* stop(): resp = self.read(5) and the test of resp
TaskStopRead ==
    /\ \E t \in Callers :
        /\ tasks[t] = "stop"
        /\ tasks' = [tasks EXCEPT ![t] = "ready"]
    /\ \E c \in StopCalls :
        /\ c[1] = address
        /\ LET r == c[2]
           IN  /\ lastOp' = Call("stop", None, "", r)
               /\ state' = IF r.stored THEN r.value ELSE state
    /\ unread' = 0
    /\ UNCHANGED <<rest, thread>>

\* infuse(): the idle guard and self.write('irun')
TaskInfuseWrite ==
    /\ \E t \in Callers :
        /\ tasks[t] = "ready"
        /\ IF IsIdle(state)
           THEN /\ tasks' = [tasks EXCEPT ![t] = "irun"]
                /\ unread' = unread + 1
                /\ lastOp' = Call("infuse", None, "", Wrote(write(address, "irun")))
           ELSE /\ lastOp' = Call("infuse", None, "", Busy)
                /\ UNCHANGED <<tasks, unread>>
    /\ UNCHANGED <<rest, state, thread>>

\* infuse(): resp = self.read(55) and what follows it
TaskInfuseRead ==
    /\ \E t \in Callers :
        /\ tasks[t] = "irun"
        /\ tasks' = [tasks EXCEPT ![t] = "ready"]
    /\ \E c \in InfuseCalls :
        /\ c[1] = address
        /\ LET r == c[2]
           IN  /\ lastOp' = Call("infuse", None, "", r)
               /\ state' = IF r.stored THEN r.value ELSE state
               /\ thread' = IF r.outcome = "ok" THEN ThreadAfterRun(thread) ELSE thread
    /\ unread' = 0
    /\ UNCHANGED rest

\* a thread of the program enters pump.waituntilfinished()
PollerStart ==
    /\ tasks.poller \in {"off", "done"}
    /\ tasks' = [tasks EXCEPT !.poller = "test"]
    /\ lastOp' = Call("waituntilfinished", None, "",
                      Res("called", <<>>, <<>>, FALSE, "None", NoValue))
    /\ UNCHANGED <<rest, state, thread, unread>>

\* the loop test of waituntilfinished
PollerTest ==
    /\ tasks.poller = "test"
    /\ tasks' = [tasks EXCEPT !.poller = IF IsMoving(state) THEN "read" ELSE "done"]
    /\ lastOp' = Call("waituntilfinished", None, "",
                      Res(IF IsMoving(state) THEN "polling" ELSE "returned",
                          <<>>, <<>>, FALSE, "None", NoValue))
    /\ UNCHANGED <<rest, state, thread, unread>>

\* the body of the loop: resp = self.read(5) and the test for 'T*'
PollerRead ==
    /\ tasks.poller = "read"
    /\ \E r \in PollCalls :
        /\ lastOp' = Call("waituntilfinished", None, "", r)
        /\ state' = IF r.stored THEN r.value ELSE state
        /\ tasks' = [tasks EXCEPT !.poller = IF r.outcome = "finished" THEN "done" ELSE "test"]
    /\ unread' = 0
    /\ UNCHANGED <<rest, thread>>

TaskNext ==
    \/ TaskStopWrite
    \/ TaskStopRead
    \/ TaskInfuseWrite
    \/ TaskInfuseRead
    \/ PollerStart
    \/ PollerTest
    \/ PollerRead

TaskSpec == TaskInit /\ [][TaskNext]_vars

\* the poller thread, once entered, keeps being scheduled, and each of its
\* reads returns (the port is opened with timeout=2)
FairTaskSpec == TaskSpec /\ WF_vars(PollerTest) /\ WF_vars(PollerRead)

----------------------------------------------------------------------------
(* properties *)

GuardedOps == {"setdiameter", "setwithdrawrate", "setinfusionrate", "settargetvolume",
               "setsyringevolume", "infuse", "withdraw"}

SetterOps == {"setdiameter", "setwithdrawrate", "setinfusionrate", "settargetvolume",
              "setsyringevolume"}

fields == <<diameter, flowrate, targetvolume, syringevolume>>

\* the caller of the step holds a chain-variant handle and is not inside a call
ChainCall == handle = "Pump" /\ pc = "ready"

\* C1: on a chain-variant device whose state is not idle, each guarded
\* operation (the five setters, infuse, withdraw) writes no frame, raises no
\* error (it only reports busy) and leaves state, diameter, flowrate,
\* targetvolume and syringevolume as they were.
C1_GuardedNoOp ==
    [][ (ChainCall /\ state # "idle" /\ lastOp'.op \in GuardedOps)
            => /\ lastOp'.frames = <<>>
               /\ lastOp'.outcome = "busy"
               /\ state' = state
               /\ fields' = fields ]_vars

C1_Witness ==
    /\ handle = "Pump"
    /\ state = "infusing"
    /\ lastOp.op = "infuse"
    /\ lastOp.outcome = "busy"
    /\ lastOp.frames = <<>>

\* the step stored v by a call of one of ops that wrote the set command and
\* the re-query, read a reply to the re-query, and found the returned value
\* equal to the requested one
EchoedStore(ops, v) ==
    /\ lastOp'.op \in ops
    /\ Len(lastOp'.frames) = 2
    /\ Len(lastOp'.replies) = 2
    /\ lastOp'.replies[2] # ""
    /\ lastOp'.returned = <<lastOp'.val, 1>>
    /\ v = lastOp'.val

\* the step made a new handle, all of whose fields are unset
FreshHandle == lastOp'.op \in {"Chain", "init", "init2000"} /\ fields' = <<None, None, None, None>>

C3_PollerRuns ==
    (handle = "Pump" /\ lastOp.op \in {"infuse", "withdraw"} /\ lastOp.outcome = "ok")
        => thread = "started"

\* C4: on an idle chain device infuse/withdraw writes the run command; a
\* reply containing 'Command error' fails with PumpError and leaves the state
\* idle; every other reply makes the state infusing (withdrawing).
C4_RunOutcome ==
    [][ (ChainCall /\ state = "idle" /\ lastOp'.op \in {"infuse", "withdraw"})
            => /\ lastOp'.frames =
                    <<AddressStr(address)
                        \o (IF lastOp'.op = "infuse" THEN "irun" ELSE "wrun") \o "\r">>
               /\ IF Contains(RemoveNL(lastOp'.replies[1]), "Command error")
                  THEN lastOp'.outcome = "PumpError" /\ state' = "idle"
                  ELSE state' = (IF lastOp'.op = "infuse" THEN "infusing" ELSE "withdrawing")
      ]_vars

\* C5: chain-variant stop writes the stop frame in every state; a reply that
\* begins with the address and ':' makes the state idle; every other reply,
\* the empty one of a timeout included, fails with PumpError and leaves the
\* state unchanged.
C5_StopOutcome ==
    [][ (ChainCall /\ lastOp'.op = "stop")
            => /\ lastOp'.frames = <<AddressStr(address) \o "stop" \o "\r">>
               /\ IF Slice(RemoveNL(lastOp'.replies[1]), 0, 3) = AddressStr(address) \o ":"
                  THEN lastOp'.outcome = "ok" /\ state' = "idle"
                  ELSE lastOp'.outcome = "PumpError" /\ state' = state ]_vars

\* the state a status token of the probe reply stands for
TokenState(c) ==
    CASE c = ":" -> "idle" [] c = ">" -> "infusing" [] c = "<" -> "withdrawing"

\* C6: constructing a device handle (of either class) writes the version
\* query and reads the probe reply; when the address digits of the reply
\* equal the configured address and the status token after them is ':', '>'
\* or '<', construction succeeds with state idle, infusing or withdrawing;
\* when the digits differ or the token is none of these, it fails with
\* PumpError and the port is closed.
C6_Probe ==
    lastOp.op \in {"init", "init2000"} =>
        \E resp \in {RemoveNL(lastOp.replies[1])} :
        \E digits \in {ParseInt(Slice(resp, 0, 2))}, token \in {Slice(resp, 2, 3)} :
            /\ Len(lastOp.frames) = 1
            /\ (digits # None /\ digits = lastOp.val /\ token \in {":", ">", "<"})
                => /\ lastOp.outcome = "ok"
                   /\ handle # "none"
                   /\ state = TokenState(token)
            /\ (digits # None /\ (digits # lastOp.val \/ (Len(token) = 1 /\ token \notin {":", ">", "<"})))
                => /\ lastOp.outcome = "PumpError"
                   /\ ~open

NoStatusToken(t) == ~Contains(t, ":") /\ ~Contains(t, "<") /\ ~Contains(t, ">")

\* C8: for each of the five setters of the chain variant, when the reply to
\* the set command contains none of ':', '<', '>', the call fails with
\* PumpError, writes no re-query frame and leaves the cached fields unchanged.
C8_Unconfirmed ==
    [][ (/\ ChainCall /\ state = "idle" /\ lastOp'.op \in SetterOps
         /\ Len(lastOp'.replies) >= 1
         /\ NoStatusToken(RemoveNL(lastOp'.replies[1])))
            => /\ lastOp'.outcome = "PumpError"
               /\ Len(lastOp'.frames) = 1
               /\ fields' = fields ]_vars

\* C9: on an idle chain device setdiameter(d) with d < 0.1 or d > 35 fails
\* with PumpError, writes nothing and leaves diameter and state unchanged;
\* d = 0.1 and d = 35 are not rejected: their set command is written.
C9_DiameterRange ==
    [][ (ChainCall /\ state = "idle" /\ lastOp'.op = "setdiameter")
            => /\ (lastOp'.val < 100 \/ lastOp'.val > 35000)
                    => /\ lastOp'.outcome = "PumpError"
                       /\ lastOp'.frames = <<>>
                       /\ diameter' = diameter
                       /\ state' = state
               /\ (lastOp'.val = 100 \/ lastOp'.val = 35000)
                    => Len(lastOp'.frames) >= 1 ]_vars

C9_Witness ==
    /\ handle = "Pump"
    /\ state = "idle"
    /\ lastOp.op = "setdiameter"
    /\ lastOp.val = 40000
    /\ lastOp.outcome = "PumpError"
    /\ lastOp.frames = <<>>

\* d written with two decimals, for the diameters of the model
TwoDecimals(d) ==
    CASE d = 100 -> "0.10" [] d = 10000 -> "10.00" [] d = 12347 -> "12.35"
      [] d = 35000 -> "35.00"

\* the character a confirmation carries where setdiameter looks for the
\* status: the third of its last line
ConfirmStatus(raw) ==
    LET lines == SplitLines(RemoveNL(raw))
    IN  IF Len(lines) = 0 THEN "" ELSE Slice(lines[Len(lines)], 2, 3)

C11_NoPipelining == unread <= 1

\* the callers that wrote a frame and did not read its reply yet
InCycle == { t \in Callers : tasks[t] # "ready" }

\* C12: request/response cycles on the shared line exclude each other: while
\* a caller has written a frame and not yet read its reply, no other caller
\* writes or reads and no poller reads.
C12_Exclusion ==
    /\ [](Cardinality(InCycle) <= 1)
    /\ [][ InCycle # {} => ~(tasks.poller = "read" /\ tasks'.poller # "read") ]_vars

PollerRunning == tasks.poller \in {"test", "read"}

\* C13: when stop() has succeeded while a poller was running, the poller
\* eventually exits; it does not go on reading the line for a device whose
\* state stays idle (it goes on only if the device was started again).
C13_PollerExits ==
    (PollerRunning /\ lastOp.op = "stop" /\ lastOp.outcome = "ok" /\ state = "idle")
        ~> (~PollerRunning \/ state \in {"infusing", "withdrawing"})

C13_Witness ==
    /\ tasks.poller = "read"
    /\ lastOp.op = "stop"
    /\ lastOp.outcome = "ok"
    /\ state = "idle"

GetterOps == {"gettargetvolume", "getsyringevolume", "ivolume", "wvolume"}

\* the query text of a chain getter
QueryOf(op) ==
    CASE op = "gettargetvolume" -> "tvolume" [] op = "getsyringevolume" -> "svolume"
      [] op = "ivolume" -> "ivolume" [] op = "wvolume" -> "wvolume"

\* C14: each chain getter (gettargetvolume, getsyringevolume, ivolume,
\* wvolume) writes its query in every state of the device, there being no
\* idle guard, and whether it returns a value or fails it leaves state,
\* diameter, flowrate, targetvolume and syringevolume unchanged.
C14_GettersReadOnly ==
    [][ (ChainCall /\ lastOp'.op \in GetterOps)
            => /\ lastOp'.frames = <<AddressStr(address) \o QueryOf(lastOp'.op) \o "\r">>
               /\ Len(lastOp'.replies) = 1
               /\ lastOp'.outcome \in {"ok", "PumpError", "TypeError"}
               /\ state' = state
               /\ fields' = fields ]_vars

C14_Witness ==
    /\ handle = "Pump"
    /\ state = "infusing"
    /\ targetvolume = 5000
    /\ lastOp.op = "gettargetvolume"
    /\ lastOp.frames = <<"03tvolume\r">>
    /\ lastOp.outcome = "PumpError"

\* the caller holds a handle of either class and is not inside a call
AnyCall == handle \in {"Pump", "Pump2000"} /\ pc = "ready"

\* the step closed the port
Closed == open /\ ~open'

\* the state that some reply read by the call of the step reports through
\* _errorcheck
ReportedState(st) ==
    \E i \in 1..Len(lastOp'.replies) :
        \E t \in {RemoveNL(lastOp'.replies[i])} : Len(t) > 0 /\ st = errorcheck(t)

\* C15 as stated: a failure (PumpError) of an operation on a constructed
\* handle leaves the port open and the state and the cached fields unchanged;
\* only a failed construction closes the port.
C15_FailureLocal ==
    [][ /\ (AnyCall /\ lastOp'.outcome = "PumpError")
            => (open' /\ state' = state /\ fields' = fields)
        /\ Closed => (lastOp'.op \in {"init", "init2000"} /\ lastOp'.outcome # "ok") ]_vars

\* C15, amended: a failure (PumpError) of an operation on a constructed
\* handle leaves the port open and the cached fields unchanged; it leaves the
\* state unchanged on a Pump, and on a Pump2000 it leaves the state unchanged
\* or set to the status that a reply read by the failing call reports; only a
\* failed construction closes the port.
C15_FailureLocalAmended ==
    [][ /\ (AnyCall /\ lastOp'.outcome = "PumpError")
            => /\ open'
               /\ fields' = fields
               /\ handle = "Pump" => state' = state
               /\ handle = "Pump2000" => (state' = state \/ ReportedState(state'))
        /\ Closed => (lastOp'.op \in {"init", "init2000"} /\ lastOp'.outcome # "ok") ]_vars

C15_Witness ==
    /\ handle = "Pump2000"
    /\ open
    /\ lastOp.op = "Pump2000.stop"
    /\ lastOp.outcome = "PumpError"
    /\ lastOp.replies = <<"\n12.5>">>
    /\ state = "infusing"

\* C16: Pump2000.infuse() called while the device is withdrawing, and
\* Pump2000.withdraw() called while it is infusing, write the stop command
\* STP first and the command of the new direction only after it.
C16_StopBeforeReverse ==
    [][ (/\ handle = "Pump2000" /\ pc = "ready"
         /\ \/ state = "withdrawing" /\ lastOp'.op = "Pump2000.infuse"
            \/ state = "infusing" /\ lastOp'.op = "Pump2000.withdraw")
            => /\ Len(lastOp'.frames) >= 1
               /\ Contains(lastOp'.frames[1], "STP") ]_vars

CommandOps2000 ==
    {"Pump2000.run", "Pump2000.rev", "Pump2000.stop", "Pump2000.clear_accumulated_volume",
     "Pump2000.clear_target_volume", "Pump2000.set_rate", "Pump2000.setdiameter",
     "Pump2000.settargetvolume", "Pump2000.getdiameter", "Pump2000.getrate",
     "Pump2000.ivolume", "Pump2000.gettargetvolume"}

\* the last character of the text Pump.read makes of what the line delivered
LastChar(raw) == \E t \in {RemoveNL(raw)} : Ch(t, Len(t) - 1)

\* the last reply the call of the step read ends in a character that is not
\* a status
UnknownStatus ==
    /\ Len(lastOp'.replies) >= 1
    /\ \E t \in {RemoveNL(lastOp'.replies[Len(lastOp'.replies)])} :
        Len(t) > 0 /\ Ch(t, Len(t) - 1) \notin {":", ">", "<", "*"}

\* C17 as stated: every command of Pump2000 whose reply ends in a character
\* other than ':', '>', '<', '*' fails with PumpError and leaves the state
\* unchanged.
C17_UnknownStatus ==
    [][ (handle = "Pump2000" /\ pc = "ready" /\ lastOp'.op \in CommandOps2000 /\ UnknownStatus)
            => (lastOp'.outcome = "PumpError" /\ state' = state) ]_vars

\* C17, amended: every command of Pump2000 whose reply ends in a character
\* other than ':', '>', '<', '*' fails with PumpError and leaves the state as
\* it was when that reply was read: unchanged, or, for the second reply of
\* getrate, as the first reply of getrate set it.
C17_UnknownStatusAmended ==
    [][ (handle = "Pump2000" /\ pc = "ready" /\ lastOp'.op \in CommandOps2000 /\ UnknownStatus)
            => /\ lastOp'.outcome = "PumpError"
               /\ IF Len(lastOp'.replies) = 1 THEN state' = state
                  ELSE /\ lastOp'.op = "Pump2000.getrate"
                       /\ state' = errorcheck(RemoveNL(lastOp'.replies[1])) ]_vars

C17_Witness ==
    /\ handle = "Pump2000"
    /\ lastOp.op = "Pump2000.getrate"
    /\ lastOp.replies = <<"\n12.5>", "1.5?">>
    /\ lastOp.outcome = "PumpError"
    /\ state = "infusing"

Ops2000 == CommandOps2000 \cup {"Pump2000.infuse", "Pump2000.withdraw", "init2000"}

Mnemonics == {"VER", "RUN", "REV", "STP", "CLV", "CLT", "MLM", "ULM", "MLH", "ULH", "MMD",
              "MLT", "DIA", "RAT", "RNG", "VOL", "TAR"}

\* the address of the handle that wrote the frames of lastOp
Writer == IF lastOp.op \in {"init", "init2000"} THEN lastOp.val ELSE address

----------------------------------------------------------------------------
(* the module functions on their own: remove_crud and convert_units applied
   to inputs drawn from bounded sets *)

\* every unit built from a volume and a time, as convert_str_units writes them
FlowUnits ==
    {v \o "/" \o t : v \in {"ml", "ul", "nl", "pl"}, t \in {"sec", "min", "hor"}}

\* values in thousandths
ConvertValues == {0, 1000, 12500}

CrudInputs ==
    {"00012.500 ", "0.0", "   7.00", "12.5", "0", "100", " 0.50 ", "1.", "000", "10.0 "}

\* the number of conversions applied to one value, one after the other
MaxHops == 2

\* a value as its exact quantity <<v, a, b>>: v * 60^a * 10^b
Exact(v) == <<v, 0, 0>>

\* val * time_factor_from * time_factor_to * vol_factor_from * vol_factor_to
\* on an exact quantity
convert_exact(q, fromUnit, toUnit) ==
    LET e == Factor(fromUnit, toUnit)
    IN  <<q[1], q[2] + e[1], q[3] + e[2]>>

\* two exact quantities are the same number
SameNumber(q, r) == IF q[1] = 0 THEN r[1] = 0 ELSE q = r

PureInit ==
    /\ open = TRUE
    /\ handle = "none"
    /\ address = None
    /\ state = "None"
    /\ diameter = None
    /\ flowrate = None
    /\ targetvolume = None
    /\ syringevolume = None
    /\ thread = "none"
    /\ pc = "ready"
    /\ unread = 0
    /\ tasks = NoTasks
    /\ rate_units = "unset"
    /\ \/ \E v \in ConvertValues, a \in FlowUnits :
            lastOp = [op |-> "value", arg |-> Exact(v), returned |-> Exact(v), path |-> <<a>>]
       \/ \E string \in CrudInputs :
            lastOp = [op |-> "string", arg |-> string, returned |-> string]

\* convert_units(val, fromUnit, toUnit) on the value the last conversion
\* returned, from the unit it is in
ConvertUnits ==
    /\ lastOp.op \in {"value", "convert_units"}
    /\ Len(lastOp.path) <= MaxHops
    /\ \E toUnit \in FlowUnits :
        LET fromUnit == lastOp.path[Len(lastOp.path)]
        IN  lastOp' = [op |-> "convert_units", arg |-> lastOp.arg,
                       returned |-> convert_exact(lastOp.returned, fromUnit, toUnit),
                       path |-> Append(lastOp.path, toUnit)]
    /\ UNCHANGED <<open, handle, address, state, diameter, flowrate, targetvolume,
                   syringevolume, thread, pc, unread, tasks, rate_units>>

\* remove_crud(string)
RemoveCrud ==
    /\ lastOp.op = "string"
    /\ lastOp' = [op |-> "remove_crud", arg |-> lastOp.arg,
                  returned |-> remove_crud(lastOp.arg)]
    /\ UNCHANGED <<open, handle, address, state, diameter, flowrate, targetvolume,
                   syringevolume, thread, pc, unread, tasks, rate_units>>

PureNext == ConvertUnits \/ RemoveCrud

PureSpec == PureInit /\ [][PureNext]_vars

\* C19: for every value and every pair of units a, b built from the volumes
\* ml, ul, nl, pl and the times sec, min, hor, converting the value from a to
\* b and the result back from b to a returns the value (exact factors: the
\* a-to-b factor times the b-to-a factor is 1)
C19_RoundTrip ==
    (/\ lastOp.op = "convert_units"
     /\ Len(lastOp.path) = 3
     /\ lastOp.path[3] = lastOp.path[1])
        => SameNumber(lastOp.returned, lastOp.arg)

\* C20: strip of a padded numeric string returns the number without leading
\* zeros and spaces, without trailing zeros after the decimal point and
\* without a trailing decimal point or trailing spaces; "00012.500 " gives
\* "12.5", "0.0" gives "0" and "   7.00" gives "7"
C20_Strip ==
    lastOp.op = "remove_crud" =>
        LET r == lastOp.returned
            n == Len(r)
        IN  /\ lastOp.arg = "00012.500 " => r = "12.5"
            /\ lastOp.arg = "0.0" => r = "0"
            /\ lastOp.arg = "   7.00" => r = "7"
            /\ n > 0 => Ch(r, 0) \notin {"0", " "}
            /\ n > 0 => Ch(r, n - 1) \notin {" ", "."}
            /\ (n > 0 /\ Contains(r, ".")) => Ch(r, n - 1) # "0"

----------------------------------------------------------------------------
(* the poller and the single-unit state *)

WaitOps == {"waituntilfinished", "Pump2000.waituntilfinished"}

\* the step is one pass of the loop of waituntilfinished
PollStep == pc = "polling" /\ lastOp'.op \in WaitOps

\* the pass read a text that holds the completion marker of the handle's class
MarkerRead ==
    /\ Len(lastOp'.replies) = 1
    /\ \E t \in {RemoveNL(lastOp'.replies[1])} :
        Contains(t, IF handle = "Pump" THEN "T*" ELSE "*")

\* C21: a pass of the poller writes no frame and raises no error, whatever it
\* read; it leaves the port, the address and the cached fields as they were,
\* and the state too unless it read the completion marker, and then the state
\* becomes idle
C21_PollerReadOnly ==
    [][PollStep =>
        /\ lastOp'.frames = <<>>
        /\ lastOp'.outcome \in {"polling", "finished", "returned"}
        /\ open' = open /\ address' = address /\ handle' = handle
        /\ fields' = fields /\ rate_units' = rate_units
        /\ state' = IF MarkerRead THEN "idle" ELSE state]_vars

\* a pass of the poller of a moving pump read nothing and goes on polling
C21_Witness ==
    /\ lastOp.op = "waituntilfinished"
    /\ lastOp.outcome = "polling"
    /\ lastOp.replies = <<"">>
    /\ pc = "polling"
    /\ state \in {"infusing", "withdrawing"}

\* C22: on a Pump2000, after every command that returned normally (run, rev,
\* infuse and withdraw included), the state is the decoding of the status
\* character that ends the most recent reply (':' idle, '>' infusing, '<'
\* withdrawing, '*' stalled): no command sets a state the pump did not report
C22_StateIsReported ==
    (/\ handle = "Pump2000"
     /\ lastOp.op \in CommandOps2000 \cup {"Pump2000.infuse", "Pump2000.withdraw"}
     /\ lastOp.outcome = "ok"
     /\ Len(lastOp.replies) >= 1)
        => \E t \in {RemoveNL(lastOp.replies[Len(lastOp.replies)])} :
                Len(t) > 0 /\ state = errorcheck(t)

\* the query reply of the call of lastOp shows the requested magnitude in the
\* requested unit, as convert_str_units spells it
EchoesRequest ==
    /\ Len(lastOp.replies) = 2
    /\ \E t \in {RemoveNL(lastOp.replies[2])},
          e \in {StrFloat(lastOp.val) \o " " \o convert_str_units(lastOp.unit)} :
        Len(t) > Len(e) /\ Slice(t, Len(t) - Len(e), Len(t)) = e /\ Ch(t, Len(t) - Len(e) - 1) = ":"

\* C23: on an idle chain pump, for every rate unit code u, setinfusionrate
\* or setwithdrawrate of (v, u) whose confirmation carries a status and whose
\* query echoes v in the unit u ends with flowrate = v, whichever time unit
\* was asked for
C23_RateAccepted ==
    (/\ handle = "Pump"
     /\ lastOp.op \in {"setinfusionrate", "setwithdrawrate"}
     /\ lastOp.outcome = "ok"
     /\ EchoesRequest)
        => flowrate = lastOp.val

\* the status the reply to STP reports, "None" when the reply ends in no status
StopReported ==
    IF Len(lastOp.replies) = 1 /\ Len(RemoveNL(lastOp.replies[1])) > 0
    THEN errorcheck(RemoveNL(lastOp.replies[1]))
    ELSE "None"

\* C24: Pump2000.stop() returns normally only when the status of the reply
\* to STP is not a moving one: after a stop() that returned the state is
\* idle or stalled, and a reply that reports infusing or withdrawing makes
\* stop() fail with PumpError
C24_StopStops ==
    (handle = "Pump2000" /\ lastOp.op = "Pump2000.stop") =>
        /\ lastOp.outcome = "ok" =>
                state \in {"idle", "stalled"} /\ state = StopReported
        /\ StopReported \in {"infusing", "withdrawing"} => lastOp.outcome = "PumpError"

\* a stop() whose reply still reports infusing failed with PumpError
C24_Witness ==
    /\ handle = "Pump2000"
    /\ lastOp.op = "Pump2000.stop"
    /\ lastOp.replies = <<"\n12.5>">>
    /\ lastOp.outcome = "PumpError"
    /\ state = "infusing"

====
